---- MODULE Spec2Model ----
(***************************************************************************)
(* Model of src/algos.py: the n-step return engine (NStepAlgo) with its    *)
(* return policies, the planning wrappers Dyna and PrioritizedSweep, and    *)
(* the reward-shaping wrapper ExploreBonus.                                 *)
(*                                                                         *)
(* Numbers are fixed point: a Python float x is the integer x * Scale, and *)
(* gamma = GammaNum / GammaDen.  Scale = GammaDen^(MaxNstep+1), so that     *)
(* every product with gamma taken in an n-step return is exact.            *)
(***************************************************************************)
EXTENDS Integers, Sequences, FiniteSets, TLC

\* ---------------------------------------------------------------- bounds
MaxNstep == 3          \* nstep ranges over 1..MaxNstep
MaxT     == 2          \* last time index at which an episode may still be running
MaxNsim  == 2          \* nsim ranges over 1..MaxNsim
MaxPQ    == 2          \* the priority queue holds at most MaxPQ entries

\* ------------------------------------------------------------- constants
GammaNum == 9          \* gamma = 0.9 (default of NStepAlgo.__init__)
GammaDen == 10
ThetaNum == 5          \* theta = 0.05 (default of PrioritizedSweep.__init__)
ThetaDen == 100
KappaNum == 5          \* kappa = 0.05 (default of ExploreBonus.__init__)
KappaDen == 100

RECURSIVE Pow(_, _)
Pow(b, n) == IF n = 0 THEN 1 ELSE b * Pow(b, n - 1)

Scale == Pow(GammaDen, MaxNstep + 1)

States  == {0, 1}
Actions == {0, 1}
Rewards == {0, Scale}              \* the rewards 0.0 and 1.0
QVals   == {0, 2 * Scale}          \* the action values 0.0 and 2.0
Pairs   == States \X Actions
\* the agent's value tables: every value of state 0 is 0.0
QTables == {Qt \in [Pairs -> QVals] : \A b \in Actions : Qt[<<0, b>>] = 0}
Algos   == {"Sarsa", "QLearn", "TreeLearn"}
\* the (s, a) an episode starts from
StartPairs == {<<0, 0>>, <<1, 1>>}

Theta == (ThetaNum * Scale) \div ThetaDen

Abs(x) == IF x < 0 THEN 0 - x ELSE x

\* gamma * x
Discount(x) == (GammaNum * x) \div GammaDen

Min(x, y) == IF x < y THEN x ELSE y

\* ------------------------------------------------- T_step: None, inf, int
TNone   == [k |-> "none", v |-> 0]
TInf    == [k |-> "inf",  v |-> 0]
TFin(n) == [k |-> "fin",  v |-> n]

\* x < T for an integer x and T = inf or an integer
LessT(x, T) == IF T.k = "inf" THEN TRUE ELSE x < T.v

\* min(x, T)
MinT(x, T) == IF T.k = "inf" THEN x ELSE Min(x, T.v)

\* x >= T - 1
GeqTm1(x, T) == IF T.k = "inf" THEN FALSE ELSE x >= T.v - 1

\* ------------------------------------------------------ utils.Buffer
\* A slot is <<s, a, r>>; the default fill (None, None, None) is <<>>.
NoneSlot == <<>>

NewBuffer(cap) == [i \in 1..cap |-> NoneSlot]

\* slot[:2]: the (s, a) of a slot, <<>> for (None, None)
SlotSA(slot) == IF slot = NoneSlot THEN <<>> ELSE SubSeq(slot, 1, 2)

BufIndex(buf, i) == (i % Len(buf)) + 1

BufGet(buf, i) == buf[BufIndex(buf, i)]

BufSet(buf, i, val) == [buf EXCEPT ![BufIndex(buf, i)] = val]

\* ------------------------------------------------------ baseagent.Agent
q(Qt, s, a) == Qt[<<s, a>>]

best_action_val(Qt, s) ==
    CHOOSE x \in {Qt[<<s, b>>] : b \in Actions} :
        \A b \in Actions : Qt[<<s, b>>] <= x

best_action(Qt, s) ==
    CHOOSE b \in Actions :
        /\ Qt[<<s, b>>] = best_action_val(Qt, s)
        /\ \A c \in Actions : Qt[<<s, c>>] = best_action_val(Qt, s) => b <= c

\* ------------------------------------------------------ baseagent.Command
NoUpdate == [st |-> "ok", update |-> FALSE, ret |-> 0, sa |-> <<>>, terminate |-> FALSE]

Command(ret, sa, terminate) ==
    [st |-> "ok", update |-> TRUE, ret |-> ret, sa |-> sa, terminate |-> terminate]

Raised == [st |-> "error", update |-> FALSE, ret |-> 0, sa |-> <<>>, terminate |-> FALSE]

NoCall == [st |-> "none", update |-> FALSE, ret |-> 0, sa |-> <<>>, terminate |-> FALSE]

\* ------------------------------------------------------ return policies
\* every policy bootstraps off the greedy value
end_return_greedy(al, Qt, slot) == slot[3] + Discount(best_action_val(Qt, slot[1]))

end_return(al, Qt, slot) ==
    IF al = "Sarsa"
    THEN slot[3] + Discount(q(Qt, slot[1], slot[2]))
    ELSE slot[3] + Discount(best_action_val(Qt, slot[1]))

\* a step that forgets the discount
step_return_undiscounted(al, Qt, slot, ret) == slot[3] + ret

step_return(al, Qt, slot, ret) ==
    IF al = "TreeLearn"
    THEN LET best_a == best_action(Qt, slot[1])
             tmp    == IF slot[2] = best_a THEN ret ELSE q(Qt, slot[1], best_a)
         IN  slot[3] + Discount(tmp)
    ELSE slot[3] + Discount(ret)

\* ------------------------------------------------------ NStepAlgo
\* the loop "for i in range(end_t - 1, tgt_t, -1)" of get_return
RECURSIVE ReturnLoop(_, _, _, _, _, _)
ReturnLoop(al, Qt, buf, i, tgt_t, ret) ==
    IF i <= tgt_t
    THEN ret
    ELSE ReturnLoop(al, Qt, buf, i - 1, tgt_t, step_return(al, Qt, BufGet(buf, i), ret))

EndT(T, tt) == MinT(tt + 1, T)

get_return(al, Qt, buf, T, tt, tgt_t) ==
    LET end_t == EndT(T, tt)
        ret   == end_return(al, Qt, BufGet(buf, end_t))
    IN  ReturnLoop(al, Qt, buf, end_t - 1, tgt_t, ret)

\* every terminal transition moves the horizon
SetTStep_always(T, tt, is_terminal) ==
    IF is_terminal THEN TFin(tt + 1) ELSE T

\* lines 56-57
SetTStep(T, tt, is_terminal) ==
    IF T.k = "inf" /\ is_terminal THEN TFin(tt + 1) ELSE T

\* the write is not guarded by the horizon
StoreSlot_always(buf, T, tt, new_s, new_a, r) == BufSet(buf, tt + 1, <<new_s, new_a, r>>)

\* lines 59-60
StoreSlot(buf, T, tt, new_s, new_a, r) ==
    IF LessT(tt, T) THEN BufSet(buf, tt + 1, <<new_s, new_a, r>>) ELSE buf

\* line 62
TgtT(n, tt) == tt - n + 1

\* the first update comes one call late
NoHistory_late(tgt_t) == tgt_t <= 0

\* line 63
NoHistory(tgt_t) == tgt_t < 0

\* terminate compares with T_step instead of T_step - 1
Terminate_late(tgt_t, T) == IF T.k = "inf" THEN FALSE ELSE tgt_t >= T.v

\* line 68
Terminate(tgt_t, T) == GeqTm1(tgt_t, T)

\* NStepAlgo.__call__: the engine's state after the call and what it returns.
\* Before init_episode T_step is None and "t < self.T_step" raises.
NStepCall(n, al, Qt, buf, T, c) ==
    IF T.k = "none"
    THEN [buffer |-> buf, T_step |-> T, cmd |-> Raised]
    ELSE LET T1    == SetTStep(T, c.t, c.is_terminal)
             buf1  == StoreSlot(buf, T1, c.t, c.new_s, c.new_a, c.r)
             tgt_t == TgtT(n, c.t)
         IN  [buffer |-> buf1,
              T_step |-> T1,
              cmd    |-> IF NoHistory(tgt_t)
                         THEN NoUpdate
                         ELSE Command(get_return(al, Qt, buf1, T1, c.t, tgt_t),
                                      SlotSA(BufGet(buf1, tgt_t)),
                                      Terminate(tgt_t, T1))]

\* the buffer has one slot too few
NStepInit_short(n, s, a) == BufSet(NewBuffer(n), 0, <<s, a, 0>>)

\* NStepAlgo.init_episode
NStepInit(n, s, a) == BufSet(NewBuffer(n + 1), 0, <<s, a, 0>>)

\* ------------------------------------------------------ dict
EmptyDict == <<>>

DictPut(d, k, v) == [x \in (DOMAIN d) \cup {k} |-> IF x = k THEN v ELSE d[x]]

\* ------------------------------------------------------ heapq
\* The heap is kept as the sorted list of its entries: heappop takes the
\* least (s, a) in tuple order, heappush inserts.
PairLeq(x, y) == x[1] < y[1] \/ (x[1] = y[1] /\ x[2] <= y[2])

heappush(pq, x) ==
    LET k == Cardinality({i \in 1..Len(pq) : PairLeq(pq[i], x)})
    IN  SubSeq(pq, 1, k) \o <<x>> \o SubSeq(pq, k + 1, Len(pq))

heappop(pq) == Tail(pq)

heaptop(pq) == Head(pq)

\* ------------------------------------------------------ Dyna, PrioritizedSweep
\* The planner's state while a call runs:
\*   Q, model, rev, pq   the agent's values, Dyna.model, rev_model, pq
\*   trace               what the call did so far, in order
\*   sweep               what the call did with the priority queue, in order
\*   strange             a replayed (s, a) had not been seen in a real transition
\*   err                 a dictionary lookup or a set removal raised
Plan(Qt, mdl, rev, pq, seen) ==
    [Q |-> Qt, model |-> mdl, rev |-> rev, pq |-> pq, seen |-> seen,
     trace |-> <<>>, sweep |-> <<>>, strange |-> FALSE, err |-> FALSE]

\* One entry of sweep.  update_pq leaves "push" or "skip" for the pair sa, with
\* res the |ret - Q(s, a)| it computed and lim the threshold; heappop leaves
\* "pop" for the pair it returned, with res the pending residual of that pair
\* and lim the largest pending residual in the queue it was popped from.
SweepEntry(op, sa, res, lim) == [op |-> op, sa |-> sa, res |-> res, lim |-> lim]

\* agent.update(ret, s, a) leaves some value x at (s, a)
AgentUpdated(Qt, sa, x) == [Qt EXCEPT ![sa] = x]

\* Dyna.update
DynaUpdate(ps, c) ==
    [ps EXCEPT !.model = DictPut(ps.model, <<c.s, c.a>>, <<c.new_s, c.r>>)]

\* the successor pair is queued instead of the updated one
PushedPair_successor(s, a, new_s, new_a) == <<new_s, new_a>>

\* the pair update_pq pushes
PushedPair(s, a, new_s, new_a) == <<s, a>>

\* the threshold is forgotten
OverTheta_always(res) == TRUE

\* line 166: "> self.theta"
OverTheta(res) == res > Theta

\* PrioritizedSweep.update_pq
update_pq(pl, ps, s, a, new_s, new_a, r) ==
    LET ret == end_return(pl, ps.Q, <<new_s, new_a, r>>)
        res == Abs(ret - q(ps.Q, s, a))
    IN  IF OverTheta(res)
        THEN [ps EXCEPT !.pq = heappush(ps.pq, PushedPair(s, a, new_s, new_a)),
                        !.sweep = Append(ps.sweep, SweepEntry("push", <<s, a>>, res, Theta))]
        ELSE [ps EXCEPT !.sweep = Append(ps.sweep, SweepEntry("skip", <<s, a>>, res, Theta))]

\* the stale predecessor entry is left in place
RevRemove_keep(ps, sa) == ps

\* PrioritizedSweep.update, lines 143-145: drop the stale predecessor entry
RevRemove(ps, sa) ==
    IF sa \in DOMAIN ps.model
    THEN LET old_new_s == ps.model[sa][1]
         IN  IF old_new_s \in DOMAIN ps.rev /\ sa \in ps.rev[old_new_s]
             THEN [ps EXCEPT !.rev = [ps.rev EXCEPT ![old_new_s] = @ \ {sa}]]
             ELSE [ps EXCEPT !.err = TRUE]
    ELSE ps

\* PrioritizedSweep.update, lines 146-149
RevAdd(ps, sa, new_s) ==
    IF new_s \notin DOMAIN ps.rev
    THEN [ps EXCEPT !.rev = DictPut(ps.rev, new_s, {sa})]
    ELSE [ps EXCEPT !.rev = [ps.rev EXCEPT ![new_s] = @ \cup {sa}]]

\* PrioritizedSweep.update
PSUpdate(pl, ps, c) ==
    LET sa  == <<c.s, c.a>>
        ps1 == RevRemove(ps, sa)
    IN  IF ps1.err THEN ps1
        ELSE DynaUpdate(update_pq(pl, RevAdd(ps1, sa, c.new_s),
                                  c.s, c.a, c.new_s, c.new_a, c.r), c)

\* Dyna.step_sim, for the action new_a the agent picks and the value x its
\* update leaves
step_sim(pl, ps, sa, new_a, x) ==
    IF sa \notin DOMAIN ps.model
    THEN [ps EXCEPT !.err = TRUE]
    ELSE LET new_s == ps.model[sa][1]
             r     == ps.model[sa][2]
             ret   == end_return(pl, ps.Q, <<new_s, new_a, r>>)
         IN  [ps EXCEPT !.Q = AgentUpdated(ps.Q, sa, x),
                        !.trace = Append(ps.trace, "sim"),
                        !.strange = ps.strange \/ sa \notin ps.seen]

\* every outcome of one step_sim of sa
StepSims(pl, ps, sa) ==
    {ps2 \in {step_sim(pl, ps, sa, new_a, x) : new_a \in Actions, x \in QVals} :
        ps2.Q \in QTables}

\* the keys random.choices draws from
Samples(ps) == DOMAIN ps.model

\* Dyna.simulate: n more draws, from each state of the set pss
RECURSIVE DynaSimulate(_, _, _)
DynaSimulate(pl, n, pss) ==
    IF n = 0 THEN pss
    ELSE DynaSimulate(pl, n - 1,
             UNION {IF ps.err THEN {ps}
                    ELSE UNION {StepSims(pl, ps, sa) : sa \in Samples(ps)} : ps \in pss})

\* PrioritizedSweep.simulate, lines 159-162: the predecessors of s
RECURSIVE SweepPreds(_, _, _, _, _)
SweepPreds(pl, ps, preds, s, a) ==
    IF preds = {} \/ ps.err THEN ps
    ELSE LET prev == CHOOSE x \in preds : TRUE
         IN  IF prev \notin DOMAIN ps.model
             THEN [ps EXCEPT !.err = TRUE]
             ELSE SweepPreds(pl,
                      update_pq(pl, ps, prev[1], prev[2], s, a, ps.model[prev][2]),
                      preds \ {prev}, s, a)

\* The pending one-step residual of a modelled pair sa: |plan return - Q(s, a)|
\* for the modelled successor and reward, the agent acting greedily there.
PendingResidual(pl, Qt, mdl, sa) ==
    LET new_s == mdl[sa][1]
    IN  Abs(end_return(pl, Qt, <<new_s, best_action(Qt, new_s), mdl[sa][2]>>) - q(Qt, sa[1], sa[2]))

\* the largest pending residual among the modelled pairs of the queue
MaxResidual(pl, Qt, mdl, queue) ==
    LET rs == {PendingResidual(pl, Qt, mdl, queue[i]) :
                   i \in {j \in 1..Len(queue) : queue[j] \in DOMAIN mdl}}
    IN  IF rs = {} THEN 0 ELSE CHOOSE x \in rs : \A y \in rs : y <= x

\* what a pop leaves in sweep
Popped(pl, ps, sa) ==
    SweepEntry("pop", sa,
               IF sa \in DOMAIN ps.model THEN PendingResidual(pl, ps.Q, ps.model, sa) ELSE 0,
               MaxResidual(pl, ps.Q, ps.model, ps.pq))

\* PrioritizedSweep.simulate: n more rounds
RECURSIVE PSSimulate(_, _, _)
PSSimulate(pl, n, pss) ==
    IF n = 0 THEN pss
    ELSE PSSimulate(pl, n - 1,
             UNION {IF ps.err \/ ps.pq = <<>> THEN {ps}
                    ELSE LET sa == heaptop(ps.pq)
                             p1 == [ps EXCEPT !.pq = heappop(ps.pq),
                                              !.sweep = Append(ps.sweep, Popped(pl, ps, sa))]
                         IN  {IF p2.err \/ sa[1] \notin DOMAIN p2.rev THEN p2
                              ELSE SweepPreds(pl, p2, p2.rev[sa[1]], sa[1], sa[2]) :
                                  p2 \in StepSims(pl, p1, sa)} : ps \in pss})

\* one replay short
SimCount_short(n) == n - 1

\* the number of replays a call of Dyna.simulate makes
SimCount(n) == n

\* Dyna.__call__ up to the delegation: the planner states it can reach
DynaPlan(kd, pl, n, ps, c) ==
    IF c.is_terminal THEN {ps}
    ELSE LET seen1 == [ps EXCEPT !.seen = ps.seen \cup {<<c.s, c.a>>}]
             ps1 == IF kd = "PrioritizedSweep" THEN PSUpdate(pl, seen1, c)
                    ELSE DynaUpdate(seen1, c)
             ps2 == [ps1 EXCEPT !.trace = Append(ps1.trace, "update")]
         IN  IF ps2.err THEN {ps2}
             ELSE IF kd = "PrioritizedSweep" THEN PSSimulate(pl, n, {ps2})
             ELSE DynaSimulate(pl, SimCount(n), {ps2})

\* what Dyna.__call__ returns: the inner rule's Command
DynaReturn(c) == c

\* ------------------------------------------------------ ExploreBonus
\* np.sqrt is taken to 1 / SqrtDen
SqrtDen == 100

\* what np.sqrt of a negative number leaves in r
NaN == 0 - 1

\* the integer square root
ISqrt(n) == CHOOSE x \in 0..n : x * x <= n /\ (x + 1) * (x + 1) > n

\* np.sqrt(d) for an integer d >= 0, relative to Scale
Sqrt(d) == (ISqrt(d * SqrtDen * SqrtDen) * Scale) \div SqrtDen

\* kappa * np.sqrt(d)
Bonus(d) == (KappaNum * Sqrt(d)) \div KappaDen

\* line 191: r += kappa * np.sqrt(d)
Shaped(r, d) == IF d < 0 THEN NaN ELSE r + Bonus(d)

\* tuple(s): a state is the tuple of its one feature
StateKey(s) == <<s>>

\* ExploreBonus._last_visit: None until init_episode, then a dict
NoTable == [set |-> FALSE, d |-> EmptyDict]

EmptyTable == [set |-> TRUE, d |-> EmptyDict]

\* the table of the previous episode is kept
ResetTable_kept(tab) == [tab EXCEPT !.set = TRUE]

\* line 188
ResetTable(tab) == EmptyTable

\* ExploreBonus.last_visit
LastVisitOf(tab, key) == IF key \notin DOMAIN tab.d THEN 0 ELSE tab.d[key]

\* the visit is not recorded
Visit_skip(tab, key, tt) == tab

\* line 192
Visit(tab, key, tt) == [tab EXCEPT !.d = DictPut(tab.d, key, tt)]

\* ---------------------------------------------------------------- state
VARIABLES
    nstep,      \* configuration: NStepAlgo.nstep
    algo,       \* configuration: the return policy class of the engine
    buffer,     \* NStepAlgo.buffer (<<>> is None)
    T_step,     \* NStepAlgo.T_step
    Q,          \* the agent's value store
    t,          \* the time index the caller passes next
    call,       \* arguments of the last apply call
    cmd,        \* what the last apply call returned
    hist,       \* the (s, a, r) delivered for the last steps of the episode,
                \* up to its terminal transition, newest last
    hlast,      \* the absolute step of the newest entry of hist
    ended,      \* a terminal transition was delivered in this episode
    nterm,      \* the Commands with terminate=true returned in this episode
    kind,       \* the rule the caller holds: "NStep", "Dyna" or "PrioritizedSweep"
    plan_algo,  \* configuration: Dyna.plan_algo
    nsim,       \* configuration: Dyna.nsim
    model,      \* Dyna.model
    rev_model,  \* PrioritizedSweep.rev_model
    pq,         \* PrioritizedSweep.pq
    seen,       \* the (s, a) of the real non-terminal transitions so far
    trace,      \* what the last call did, in order
    strange,    \* the last call replayed an (s, a) that was not in seen
    inner,      \* what the inner rule returned to the last call
    sweep,      \* what the last call did with the priority queue, in order
    last_visit, \* ExploreBonus._last_visit
    icall,      \* the arguments ExploreBonus passed to the inner rule in the last call
    sqarg,      \* the argument of np.sqrt in the last ExploreBonus call
    path,       \* the (s, a) the ExploreBonus calls of this episode were made for,
                \* path[i] at t = i - 1
    old_visit   \* the time at which the table that the last init_episode replaced
                \* had the pair the episode starts from, -1 if it had not

planvars == <<kind, plan_algo, nsim, model, rev_model, pq, seen, trace, strange, inner,
              sweep>>

bonusvars == <<last_visit, icall, sqarg, path, old_visit>>

vars == <<nstep, algo, buffer, T_step, Q, t, call, cmd, hist, hlast, ended, nterm,
          kind, plan_algo, nsim, model, rev_model, pq, seen, trace, strange, inner,
          sweep, last_visit, icall, sqarg, path, old_visit>>

NoArgs == [s |-> 0, a |-> 0, r |-> 0, new_s |-> 0, new_a |-> 0, t |-> 0 - 1,
           is_terminal |-> FALSE]

Args(s, a, r, new_s, new_a, tt, term) ==
    [s |-> s, a |-> a, r |-> r, new_s |-> new_s, new_a |-> new_a, t |-> tt,
     is_terminal |-> term]

\* keep the last n + 1 delivered steps
Push(h, n, x) ==
    LET h1 == Append(h, x)
    IN  IF Len(h1) > n + 1 THEN Tail(h1) ELSE h1

\* the state of a rule before its first init_episode
Constructed ==
    /\ buffer = <<>>
    /\ T_step = TNone
    /\ t = 0
    /\ call = NoArgs
    /\ cmd = NoCall
    /\ hist = <<>>
    /\ hlast = 0
    /\ ended = FALSE
    /\ nterm = 0
    /\ model = EmptyDict
    /\ rev_model = EmptyDict
    /\ pq = <<>>
    /\ seen = {}
    /\ trace = <<>>
    /\ strange = FALSE
    /\ inner = NoCall
    /\ sweep = <<>>
    /\ last_visit = NoTable
    /\ icall = NoArgs
    /\ sqarg = 0
    /\ path = <<>>
    /\ old_visit = 0 - 1

Init ==
    /\ Constructed
    /\ nstep \in 1..MaxNstep
    /\ algo \in Algos
    /\ kind = "NStep"
    /\ plan_algo = "Sarsa"
    /\ nsim = 1
    /\ Q \in QTables

\* NStepAlgo.init_episode(s, a), and the caller starting over at t = 0
StartEpisode(s, a) ==
    /\ <<s, a>> \in StartPairs
    /\ buffer' = NStepInit(nstep, s, a)
    /\ T_step' = TInf
    /\ t' = 0
    /\ call' = NoArgs
    /\ cmd' = NoCall
    /\ hist' = << <<s, a, 0>> >>
    /\ hlast' = 0
    /\ ended' = FALSE
    /\ nterm' = 0
    /\ trace' = <<>>
    /\ strange' = FALSE
    /\ inner' = NoCall
    /\ sweep' = <<>>
    /\ icall' = NoArgs
    /\ sqarg' = 0
    /\ path' = <<>>
    /\ UNCHANGED <<nstep, algo, Q, kind, plan_algo, nsim>>

\* NStepAlgo.init_episode(s, a); Dyna.init_episode forwards to it and touches
\* nothing of its own
InitEpisode ==
    \E s \in States, a \in Actions :
        /\ StartEpisode(s, a)
        /\ UNCHANGED <<model, rev_model, pq, seen, last_visit, old_visit>>

\* The caller keeps calling while the episode runs, and may go on for
\* nstep + 1 calls after the terminal transition.
CanCall ==
    \/ T_step.k = "none"
    \/ T_step.k = "inf" /\ t <= MaxT
    \/ T_step.k = "fin" /\ t <= T_step.v + nstep

\* The caller passes the state and action it is in: those of init_episode,
\* then the new_s and new_a of its previous call.
CurS == IF call.t >= 0 THEN call.new_s ELSE IF hist = <<>> THEN 0 ELSE hist[1][1]
CurA == IF call.t >= 0 THEN call.new_a ELSE IF hist = <<>> THEN 0 ELSE hist[1][2]

\* The environment pays 1.0 for reaching state 1 and 0.0 otherwise.
RewardOf(new_s) == IF new_s = 1 THEN Scale ELSE 0

\* Once the terminal transition was delivered the environment stays where
\* it is: further calls pass the same new_s and new_a, reward 0 and any flag.
Stays(r, new_s, new_a) ==
    IF ended THEN new_s = CurS /\ new_a = CurA /\ r = 0
    ELSE r = RewardOf(new_s)

\* Between two calls the agent applies the Command it was given: agent.update
\* leaves some value at the credited (s, a).
Learned ==
    IF cmd.st = "ok" /\ cmd.update /\ cmd.sa # <<>>
    THEN {Qt \in {AgentUpdated(Q, cmd.sa, x) : x \in QVals} : Qt \in QTables}
    ELSE {Q}

\* NStepAlgo.__call__ with the arguments c and the value table Qt the call
\* finds: what it does to the engine, and the caller's record of the episode.
EngineCall(c, Qt) ==
    LET out == NStepCall(nstep, algo, Qt, buffer, T_step, c)
        ok  == out.cmd.st # "error"
    IN  /\ Q' = Qt
        /\ buffer' = out.buffer
        /\ T_step' = out.T_step
        /\ t' = IF ok THEN t + 1 ELSE t
        /\ hist' = IF ok /\ ~ended THEN Push(hist, nstep, <<c.new_s, c.new_a, c.r>>) ELSE hist
        /\ hlast' = IF ok /\ ~ended THEN t + 1 ELSE hlast
        /\ ended' = (ended \/ (ok /\ c.is_terminal))
        /\ nterm' = IF out.cmd.terminate THEN nterm + 1 ELSE nterm
        /\ UNCHANGED <<nstep, algo>>

\* The caller is at (s, a) and calls the rule for the transition it observed.
CallWith(s, a, r, new_s, new_a, term, Qt) ==
    LET c == Args(s, a, r, new_s, new_a, t, term)
    IN  /\ Stays(r, new_s, new_a)
        /\ EngineCall(c, Qt)
        /\ kind = "NStep" => cmd' = NStepCall(nstep, algo, Qt, buffer, T_step, c).cmd
        /\ call' = c

\* NStepAlgo.__call__(agent, s, a, r, new_s, new_a, t, is_terminal), with the
\* value table Qt the call finds.
Call(r, new_s, new_a, term, Qt) == CallWith(CurS, CurA, r, new_s, new_a, term, Qt)

Apply ==
    /\ CanCall
    /\ \E r \in Rewards, new_s \in States, new_a \in Actions, term \in BOOLEAN,
          Qt \in Learned :
        Call(r, new_s, new_a, term, Qt)
    /\ UNCHANGED planvars
    /\ UNCHANGED bonusvars

Next == InitEpisode \/ Apply

Spec == Init /\ [][Next]_vars

\* ------------------------------------------------------------------------
\* The episode loop: the caller starts an episode, calls the rule with
\* t = 0, 1, 2, ... and stops right after the first Command with
\* terminate=true; the environment ends the episode at t = MaxT at the latest.
\* The agent is untrained and is not trained during the loop.
\* ------------------------------------------------------------------------
ProtoInit == Init /\ \A p \in Pairs : Q[p] = 0

ProtoInitEpisode ==
    /\ T_step.k = "none" \/ nterm >= 1
    /\ InitEpisode

ProtoApply ==
    /\ T_step.k # "none"
    /\ nterm = 0
    /\ \E r \in Rewards, new_s \in States, new_a \in Actions, term \in BOOLEAN,
          Qt \in QTables :
        /\ (~ended /\ t >= MaxT) => term
        /\ Qt = Q
        /\ Call(r, new_s, new_a, term, Qt)
    /\ UNCHANGED planvars
    /\ UNCHANGED bonusvars

ProtoNext == ProtoInitEpisode \/ ProtoApply

\* the loop is synchronous: the caller goes on calling until it stops
ProtoSpec == ProtoInit /\ [][ProtoNext]_vars /\ WF_vars(ProtoApply)

\* ------------------------------------------------------------------------
\* The same loop with a caller that is free in the s and a it passes: the
\* pair it is at, or another one.
\* ------------------------------------------------------------------------
PassedPairs == {<<CurS, CurA>>, <<1 - CurS, 1 - CurA>>}

LoopApply ==
    /\ T_step.k # "none"
    /\ nterm = 0
    /\ \E r \in Rewards, new_s \in States, new_a \in Actions, term \in BOOLEAN,
          sa \in PassedPairs :
        /\ (~ended /\ t >= MaxT) => term
        /\ CallWith(sa[1], sa[2], r, new_s, new_a, term, Q)
    /\ UNCHANGED planvars
    /\ UNCHANGED bonusvars

LoopNext == ProtoInitEpisode \/ LoopApply

LoopSpec == ProtoInit /\ [][LoopNext]_vars

\* ------------------------------------------------------------------------
\* Dyna and PrioritizedSweep around a one-step rule.
\* ------------------------------------------------------------------------
PlanAlgos == {"Sarsa", "QLearn"}

\* the behaviour policy takes action 0 in state 0
PolicyAction(new_s, new_a) == new_s = 0 => new_a = 0

\* the caller stops right after the Command with terminate=true
DynaCanCall == CanCall /\ nterm = 0

DynaInit ==
    /\ Constructed
    /\ nstep = 1
    /\ algo = "Sarsa"
    /\ kind \in {"Dyna", "PrioritizedSweep"}
    /\ plan_algo \in PlanAlgos
    /\ nsim \in 1..MaxNsim
    /\ Q \in QTables

\* Dyna.init_episode(s, a): forwards to algo and to plan_algo; the buffer of
\* plan_algo is read by no call (planning uses end_return only).
DynaInitEpisode == (T_step.k = "none" \/ nterm >= 1) /\ InitEpisode

\* Dyna.__call__(agent, s, a, r, new_s, new_a, t, is_terminal)
DynaApply ==
    /\ DynaCanCall
    /\ \E r \in Rewards, new_s \in States, new_a \in Actions, term \in BOOLEAN,
          Qt \in Learned :
        LET c == Args(CurS, CurA, r, new_s, new_a, t, term)
        IN  /\ PolicyAction(new_s, new_a)
            /\ Stays(r, new_s, new_a)
            /\ \E ps \in DynaPlan(kind, plan_algo, nsim,
                                   Plan(Qt, model, rev_model, pq, seen), c) :
                /\ Len(ps.pq) <= MaxPQ
                /\ model' = ps.model
                /\ rev_model' = ps.rev
                /\ pq' = ps.pq
                /\ seen' = ps.seen
                /\ strange' = ps.strange
                /\ sweep' = ps.sweep
                /\ IF ps.err
                   THEN /\ Stays(r, new_s, new_a)
                        /\ Q' = ps.Q
                        /\ cmd' = Raised
                        /\ inner' = NoCall
                        /\ call' = c
                        /\ trace' = Append(ps.trace, "KeyError")
                        /\ UNCHANGED <<nstep, algo, buffer, T_step, t, hist, hlast,
                                       ended, nterm>>
                   ELSE /\ Call(r, new_s, new_a, term, ps.Q)
                        /\ inner' = NStepCall(nstep, algo, ps.Q, buffer, T_step, c).cmd
                        /\ cmd' = DynaReturn(inner')
                        /\ trace' = Append(ps.trace, "delegate")
    /\ UNCHANGED <<kind, plan_algo, nsim>>
    /\ UNCHANGED bonusvars

DynaNext == DynaInitEpisode \/ DynaApply

DynaSpec == DynaInit /\ [][DynaNext]_vars

\* ------------------------------------------------------------------------
\* ExploreBonus around a one-step Sarsa rule.
\* ------------------------------------------------------------------------
BonusInit ==
    /\ Constructed
    /\ nstep = 1
    /\ algo = "Sarsa"
    /\ kind = "ExploreBonus"
    /\ plan_algo = "Sarsa"
    /\ nsim = 1
    /\ Q \in QTables

\* ExploreBonus.init_episode(s, a)
BonusInitEpisode ==
    /\ T_step.k = "none" \/ nterm >= 1
    /\ \E s \in States, a \in Actions :
        /\ StartEpisode(s, a)
        /\ last_visit' = ResetTable(last_visit)
        /\ old_visit' = IF <<StateKey(s), a>> \in DOMAIN last_visit.d
                        THEN last_visit.d[<<StateKey(s), a>>] ELSE 0 - 1
        /\ UNCHANGED <<model, rev_model, pq, seen>>

\* ExploreBonus.__call__(agent, s, a, r, new_s, new_a, t, is_terminal).
\* Before init_episode _last_visit is None and the lookup in last_visit raises.
BonusApply ==
    /\ DynaCanCall
    /\ \E r \in Rewards, new_s \in States, new_a \in Actions, term \in BOOLEAN,
          Qt \in Learned :
        LET c   == Args(CurS, CurA, r, new_s, new_a, t, term)
            key == <<StateKey(c.s), c.a>>
            d   == c.t - LastVisitOf(last_visit, key)
            ic  == [c EXCEPT !.r = Shaped(c.r, d)]
        IN  /\ PolicyAction(new_s, new_a)
            /\ Stays(r, new_s, new_a)
            /\ call' = c
            /\ IF ~last_visit.set
               THEN /\ cmd' = Raised
                    /\ Q' = Qt
                    /\ UNCHANGED <<nstep, algo, buffer, T_step, t, hist, hlast, ended,
                                   nterm, inner, trace, last_visit, icall, sqarg, path>>
               ELSE /\ sqarg' = d
                    /\ last_visit' = Visit(last_visit, key, c.t)
                    /\ path' = Append(path, <<c.s, c.a>>)
                    /\ icall' = ic
                    /\ EngineCall(ic, Qt)
                    /\ inner' = NStepCall(nstep, algo, Qt, buffer, T_step, ic).cmd
                    /\ cmd' = inner'
                    /\ trace' = <<"delegate">>
    /\ UNCHANGED <<kind, plan_algo, nsim, model, rev_model, pq, seen, strange, sweep,
                   old_visit>>

BonusNext == BonusInitEpisode \/ BonusApply

BonusSpec == BonusInit /\ [][BonusNext]_vars

\* ------------------------------------------------------------------------
\* Every kind of rule the caller may hold: the engine itself with one or two
\* steps, Dyna and PrioritizedSweep with one replay per call, ExploreBonus.
\* ------------------------------------------------------------------------
AllInit ==
    \/ Init /\ nstep <= 2
    \/ DynaInit /\ nsim = 1
    \/ BonusInit

AllNext ==
    \/ kind = "NStep" /\ Next
    \/ kind \in {"Dyna", "PrioritizedSweep"} /\ DynaNext
    \/ kind = "ExploreBonus" /\ BonusNext

AllSpec == AllInit /\ [][AllNext]_vars

TypeOK ==
    /\ nstep \in 1..MaxNstep
    /\ algo \in Algos
    /\ T_step.k \in {"none", "inf", "fin"}
    /\ Q \in QTables
    /\ t \in 0..(MaxT + MaxNstep + 2)

\* ------------------------------------------------------------------------
\* The trajectory of the episode as the caller delivered it
\* ------------------------------------------------------------------------
\* the (s, a, r) delivered for absolute step i
H(i) == hist[Len(hist) - (hlast - i)]

\* gamma^k * x
GammaPow(k, x) == (Pow(GammaNum, k) * x) \div Pow(GammaDen, k)

\* the last call returned a Command that asks for an update
Updated == cmd.st = "ok" /\ cmd.update

CTgt == call.t - nstep + 1
CEnd == IF ended THEN Min(call.t + 1, hlast) ELSE call.t + 1
CM   == CEnd - CTgt

\* r[CTgt+j] + gamma * r[CTgt+j+1] + ... up to r[CTgt+m], discounted from j
RECURSIVE RewardSum(_, _)
RewardSum(j, m) ==
    IF j > m THEN 0
    ELSE GammaPow(j - 1, H(CTgt + j)[3]) + RewardSum(j + 1, m)

SarsaNStepReturn ==
    RewardSum(1, CM) + GammaPow(CM, Q[<<H(CEnd)[1], H(CEnd)[2]>>])

\* ------------------------------------------------------------------------
\* C1
\* ------------------------------------------------------------------------
\* C1 as stated: every Sarsa Command with update=true carries
\* r[tgt+1] + gamma r[tgt+2] + ... + gamma^(m-1) r[end] + gamma^m Q(s[end], a[end]),
\* m = end_t - tgt_t (taken for every m >= 0 the formula is defined for).
C1_EveryCommand ==
    (Updated /\ algo = "Sarsa" /\ CM >= 0) => cmd.ret = SarsaNStepReturn

\* C1 (amended): every Sarsa Command with update=true and tgt_t < T_step, that
\* is every Command up to and including the first one with terminate=true,
\* carries the n-step (or shorter) return of the delivered trajectory; a
\* Command of a later call (tgt_t >= T_step) carries r[T] + gamma Q(s[T], a[T]).
C1_NStepReturn ==
    (Updated /\ algo = "Sarsa") =>
        IF CM >= 1
        THEN cmd.ret = SarsaNStepReturn
        ELSE cmd.ret = H(hlast)[3] + GammaPow(1, Q[<<H(hlast)[1], H(hlast)[2]>>])

\* a full 3-step Sarsa return with a reward in each position and a bootstrap
C1_Witness ==
    /\ Updated /\ algo = "Sarsa" /\ nstep = 3 /\ CM = 3 /\ ~ended
    /\ \A j \in 1..3 : H(CTgt + j)[3] = Scale
    /\ Q[<<H(CEnd)[1], H(CEnd)[2]>>] = 2 * Scale
    /\ cmd.ret = Scale + GammaPow(1, Scale) + GammaPow(2, Scale) + GammaPow(3, 2 * Scale)

\* ------------------------------------------------------------------------
\* C2
\* ------------------------------------------------------------------------
C2_Step ==
    /\ T_step.k = "fin" => (T_step' = T_step \/ InitEpisode)
    /\ (T_step.k = "inf" /\ T_step' # T_step) =>
           /\ ~InitEpisode
           /\ call'.is_terminal
           /\ T_step' = TFin(call'.t + 1)
    /\ (T_step.k # "inf" /\ T_step'.k = "inf") => InitEpisode
    /\ (T_step'.k = "inf") => ~ended'
    /\ (T_step'.k = "fin") => ended'

\* C2: T_step is infinity until the first terminal call of the episode, which
\* sets it to t+1; from then on no apply call changes it, only init_episode does.
C2_TStepImmutable == [][C2_Step]_vars

\* a second terminal transition arrived at a larger t and T_step kept its value
C2_Witness ==
    /\ T_step.k = "fin" /\ cmd.st = "ok"
    /\ call.is_terminal /\ call.t >= T_step.v

\* ------------------------------------------------------------------------
\* C3
\* ------------------------------------------------------------------------
\* C3: a Command with update=true has terminate=true iff a terminal transition
\* was seen and tgt_t >= T_step - 1; with no terminal transition seen it is false.
C3_TerminateIff ==
    Updated =>
        /\ cmd.terminate <=> (ended /\ CTgt >= hlast - 1)
        /\ ~ended => ~cmd.terminate

\* the Command that credits the last step of the episode
C3_Witness ==
    Updated /\ cmd.terminate /\ ended /\ CTgt = hlast - 1 /\ nstep >= 2

\* ------------------------------------------------------------------------
\* C5
\* ------------------------------------------------------------------------
\* C5 as stated: when the episode ended within the window (end_t = T_step) the
\* return is built from the rewards of steps tgt_t+1..T_step only.
C5_ZeroContinuation ==
    (Updated /\ ended /\ CM >= 1 /\ algo \in {"Sarsa", "QLearn"}) =>
        cmd.ret = RewardSum(1, CM)

\* ------------------------------------------------------------------------
\* C6
\* ------------------------------------------------------------------------
\* the policy's terminalReturn for the arguments of the last call
OneStepTarget ==
    IF algo = "Sarsa"
    THEN call.r + GammaPow(1, Q[<<call.new_s, call.new_a>>])
    ELSE LET m0 == Q[<<call.new_s, 0>>]
             m1 == Q[<<call.new_s, 1>>]
         IN  call.r + GammaPow(1, IF m0 >= m1 THEN m0 ELSE m1)

\* the example of the spec: gamma = 0.9, Sarsa, (s=0,a=0,r=1,new_s=1,new_a=0,t=0,terminal)
C6_Example ==
    /\ nstep = 1 /\ algo = "Sarsa" /\ cmd.st = "ok"
    /\ call = Args(0, 0, Scale, 1, 0, 0, TRUE)
    /\ Q[<<1, 0>>] = 2 * Scale

\* C6: for nstep = 1 every call with t < T_step returns update=true with the
\* one-step target of that call, credited to the pair of step t; the example
\* yields 2.8 credited to (0,0) with terminate=true.
C6_OneStep ==
    /\ (nstep = 1 /\ cmd.st = "ok" /\ (~ended \/ call.t < hlast)) =>
           /\ cmd.update
           /\ cmd.ret = OneStepTarget
           /\ cmd.sa = <<call.s, call.a>>
           /\ cmd.sa = SubSeq(H(call.t), 1, 2)
    /\ C6_Example => cmd = Command((28 * Scale) \div 10, <<0, 0>>, TRUE)

C6_Witness == C6_Example /\ cmd.ret = (28 * Scale) \div 10

\* ------------------------------------------------------------------------
\* C7
\* ------------------------------------------------------------------------
\* update=false exactly for the calls with t < nstep - 1
C7_UpdateIff == cmd.st = "ok" => (cmd.update <=> call.t >= nstep - 1)

\* C7 as stated: ... and every no-update call records its transition at slot
\* t+1 and sets T_step on a terminal transition.
C7_AlwaysRecords ==
    /\ C7_UpdateIff
    /\ (cmd.st = "ok" /\ ~cmd.update) =>
           /\ BufGet(buffer, call.t + 1) = <<call.new_s, call.new_a, call.r>>
           /\ call.is_terminal => T_step = TFin(call.t + 1)

\* C7 (amended): update=false exactly for the calls with t < nstep - 1; a
\* no-update call with t < T_step records its transition at slot t+1, and a
\* no-update call with the first terminal transition of the episode sets T_step.
C7_NoUpdate ==
    /\ C7_UpdateIff
    /\ (cmd.st = "ok" /\ ~cmd.update) =>
           /\ (~ended \/ call.t < hlast) =>
                  BufGet(buffer, call.t + 1) = <<call.new_s, call.new_a, call.r>>
           /\ (call.is_terminal /\ hlast = call.t + 1) => T_step = TFin(call.t + 1)
           /\ T_step.k = "fin" <=> ended

\* a no-update call that carried the terminal transition
C7_Witness ==
    /\ cmd.st = "ok" /\ ~cmd.update /\ call.is_terminal /\ call.t = 1
    /\ T_step = TFin(2)
    /\ BufGet(buffer, 2) = <<call.new_s, call.new_a, call.r>>

\* ------------------------------------------------------------------------
\* C4 (checked under ProtoSpec)
\* ------------------------------------------------------------------------
\* the terminal transition came at t = hlast - 1
C4_Safe ==
    /\ nterm <= 1
    /\ (cmd.st = "ok" /\ cmd.terminate) =>
           (ended /\ nterm = 1 /\ call.t = (hlast - 1) + nstep - 1)
    /\ nterm = 1 => (cmd.st = "ok" /\ cmd.terminate)

\* C4: when the caller stops right after the first Command with terminate=true,
\* exactly one Command of the episode reports terminate=true: none does before
\* t = k + nstep - 1 (k the time of the terminal transition), the Command of
\* that call does, it is the last one, and it is eventually produced.
C4_ExactlyOneTerminate ==
    /\ []C4_Safe
    /\ (ended /\ nterm = 0) ~> (nterm = 1)

\* the terminate Command of a 3-step episode that ended at k = 1, at t = 3
C4_Witness ==
    /\ nterm = 1 /\ nstep = 3 /\ hlast = 2 /\ call.t = 3
    /\ cmd.st = "ok" /\ cmd.terminate

\* ------------------------------------------------------------------------
\* C8 (checked under DynaSpec)
\* ------------------------------------------------------------------------
\* C8: every (s, a) replayed by step_sim, sampled by Dyna.simulate or popped by
\* PrioritizedSweep.simulate, was the (s, a) of an earlier real non-terminal
\* transition and is a key of the model: the lookup in step_sim never misses,
\* and the keys of the model are exactly the pairs seen.
C8_ReplayedWereSeen ==
    /\ ~strange
    /\ \A i \in 1..Len(trace) : trace[i] # "KeyError"
    /\ DOMAIN model = seen
    /\ \A i \in 1..Len(pq) : pq[i] \in seen

\* a PrioritizedSweep call popped and replayed a pair, with two pairs modelled
C8_Witness ==
    /\ kind = "PrioritizedSweep" /\ Cardinality(seen) >= 2
    /\ \E i \in 1..Len(trace) : trace[i] = "sim"

\* ------------------------------------------------------------------------
\* C9 (checked under DynaSpec)
\* ------------------------------------------------------------------------
\* what a Dyna call is to do, in order
C9_Expected ==
    IF call.is_terminal THEN <<"delegate">>
    ELSE <<"update">> \o [i \in 1..nsim |-> "sim"] \o <<"delegate">>

\* C9: a Dyna call for a non-terminal transition updates the model for (s, a),
\* then makes exactly nsim simulated updates, then delegates once and returns
\* the inner rule's Command; for a terminal transition it only delegates.
C9_UpdateSimulateDelegate ==
    (kind = "Dyna" /\ call.t >= 0) =>
        /\ trace = C9_Expected
        /\ cmd = inner
        /\ ~call.is_terminal =>
               /\ <<call.s, call.a>> \in DOMAIN model
               /\ model[<<call.s, call.a>>] = <<call.new_s, call.r>>

\* Dyna with nsim = 2 over two observed pairs, after one more real step
C9_Witness ==
    /\ kind = "Dyna" /\ nsim = 2 /\ cmd.st = "ok" /\ ~call.is_terminal
    /\ Cardinality(DOMAIN model) = 2
    /\ trace = <<"update", "sim", "sim", "delegate">>

\* ------------------------------------------------------------------------
\* C10 (checked under DynaSpec)
\* ------------------------------------------------------------------------
\* C10 as stated: after every Dyna call, whatever its is_terminal flag,
\* model[(s, a)] = (new_s, r).
C10_EveryRealStep ==
    (kind # "NStep" /\ call.t >= 0) =>
        /\ <<call.s, call.a>> \in DOMAIN model
        /\ model[<<call.s, call.a>>] = <<call.new_s, call.r>>

\* ------------------------------------------------------------------------
\* C11 (checked under DynaSpec)
\* ------------------------------------------------------------------------
\* C11: after every PrioritizedSweep call, (s, a) is listed in rev_model[x]
\* exactly when model[(s, a)] has successor x, so a remapped pair is no longer
\* a predecessor of its old successor; and the removal of the stale entry
\* never raises.
C11_RevConsistent ==
    kind = "PrioritizedSweep" =>
        /\ \A sa \in Pairs, x \in States :
               (x \in DOMAIN rev_model /\ sa \in rev_model[x])
                   <=> (sa \in DOMAIN model /\ model[sa][1] = x)
        /\ \A i \in 1..Len(trace) : trace[i] # "KeyError"

\* (0, 0) led to state 0, the call just made remapped it to state 1, and the
\* set of predecessors of state 0 is left empty
C11_Witness ==
    /\ kind = "PrioritizedSweep" /\ cmd.st = "ok"
    /\ call.s = 0 /\ call.a = 0 /\ call.new_s = 1 /\ ~call.is_terminal
    /\ 0 \in DOMAIN rev_model /\ rev_model[0] = {}
    /\ 1 \in DOMAIN rev_model /\ <<0, 0>> \in rev_model[1]
    /\ model[<<0, 0>>][1] = 1

\* ------------------------------------------------------------------------
\* C12 (checked under DynaSpec)
\* ------------------------------------------------------------------------
\* C12 as stated: every pop of PrioritizedSweep.simulate returns a queued pair
\* whose pending residual |plan return - Q(s, a)| is the largest among the
\* pairs in the queue (stated for the QLearn planning rule, whose return does
\* not depend on the action the agent would pick).
C12_LargestFirst ==
    (kind = "PrioritizedSweep" /\ plan_algo = "QLearn") =>
        \A i \in 1..Len(sweep) :
            sweep[i].op = "pop" => sweep[i].res >= sweep[i].lim

\* ------------------------------------------------------------------------
\* C13 (checked under DynaSpec)
\* ------------------------------------------------------------------------
\* the pops of the last call, and the queue operations that follow pop i up to
\* the next pop
Pops == {i \in 1..Len(sweep) : sweep[i].op = "pop"}

AfterPop(i) ==
    {j \in (i + 1)..Len(sweep) : \A k \in (i + 1)..j : sweep[k].op # "pop"}

LastPop == CHOOSE i \in Pops : \A j \in Pops : j <= i

\* the predecessors of state s in the reverse model
PredsOf(s) == IF s \in DOMAIN rev_model THEN rev_model[s] ELSE {}

\* the residual of the predecessor prev of the replayed pair sa, recomputed
\* from the values and the model the call left
Recomputed(prev, sa) ==
    Abs(end_return(plan_algo, Q, <<sa[1], sa[2], model[prev][2]>>) - Q[prev])

\* C13: a pair is pushed onto the queue only at a moment when
\* |plan return - Q(s, a)| > theta; after each pop-and-replay of (s, a) every
\* predecessor of s in the reverse model is examined once, with the modelled
\* reward of the predecessor and the values after the replay, and it is pushed
\* exactly when its residual exceeds theta.
C13_PushIffOverTheta ==
    kind = "PrioritizedSweep" =>
        /\ \A i \in 1..Len(sweep) :
               /\ sweep[i].op = "push" => sweep[i].res > Theta
               /\ sweep[i].op = "skip" => sweep[i].res <= Theta
        /\ \A i \in Pops :
               /\ {sweep[j].sa : j \in AfterPop(i)} = PredsOf(sweep[i].sa[1])
               /\ Cardinality(AfterPop(i)) = Cardinality(PredsOf(sweep[i].sa[1]))
        /\ Pops # {} =>
               \A j \in AfterPop(LastPop) :
                   /\ sweep[j].res = Recomputed(sweep[j].sa, sweep[LastPop].sa)
                   /\ sweep[j].op = "push" <=> Recomputed(sweep[j].sa, sweep[LastPop].sa) > Theta
                   /\ sweep[j].op = "push" => \E k \in 1..Len(pq) : pq[k] = sweep[j].sa

\* after a replay one predecessor was pushed again and another was not
C13_Witness ==
    /\ kind = "PrioritizedSweep" /\ cmd.st = "ok" /\ Pops # {}
    /\ \E j, k \in AfterPop(LastPop) :
           /\ sweep[j].op = "push" /\ sweep[j].res > Theta
           /\ sweep[k].op = "skip" /\ sweep[k].res <= Theta

\* ------------------------------------------------------------------------
\* C14 (checked under BonusSpec)
\* ------------------------------------------------------------------------
\* the calls of this episode made for the pair of the last call, before it
EarlierVisits ==
    {i \in 1..(Len(path) - 1) : path[i] = <<call.s, call.a>>}

\* the time of the most recent earlier visit of that pair in this episode, 0
\* if there is none
LastEarlier ==
    IF EarlierVisits = {} THEN 0
    ELSE (CHOOSE i \in EarlierVisits : \A j \in EarlierVisits : j <= i) - 1

\* C14: ExploreBonus delegates with reward r + kappa * sqrt(t - L), L the time
\* of the most recent earlier visit of (s, a) in this episode or 0, and every
\* other argument unchanged; the bonus is 0 at t = 0; the inner rule's
\* Command is built from the shaped reward and is returned; after the call
\* lastVisit[(s, a)] = t.
C14_ShapedDelegation ==
    (kind = "ExploreBonus" /\ cmd.st = "ok") =>
        /\ icall = [call EXCEPT !.r = call.r + Bonus(call.t - LastEarlier)]
        /\ call.t = 0 => icall.r = call.r
        /\ H(hlast) = <<call.new_s, call.new_a, icall.r>>
        /\ cmd = inner
        /\ cmd.ret = icall.r + GammaPow(1, Q[<<call.new_s, call.new_a>>])
        /\ <<StateKey(call.s), call.a>> \in DOMAIN last_visit.d
        /\ last_visit.d[<<StateKey(call.s), call.a>>] = call.t

\* a pair visited at t0 = 0, not at t = 1, and again at t1 = 2: the bonus is
\* 0.05 * sqrt(2) = 0.0705 to the resolution of the square root
C14_Witness ==
    /\ kind = "ExploreBonus" /\ cmd.st = "ok" /\ call.t = 2
    /\ path[1] = <<call.s, call.a>> /\ path[2] # <<call.s, call.a>>
    /\ icall.r = call.r + (705 * Scale) \div 10000

\* ------------------------------------------------------------------------
\* C19 (checked under BonusSpec)
\* ------------------------------------------------------------------------
\* C19: in every ExploreBonus call of an episode whose t starts at 0 and grows,
\* the argument t - lastVisit(s, a) of the square root is not negative, so the
\* shaped reward is a number; this includes the first call of an episode that
\* follows one in which the same pair was visited at a larger t.
C19_SqrtArgNonNegative ==
    kind = "ExploreBonus" =>
        /\ sqarg >= 0
        /\ icall.r # NaN
        /\ cmd.st = "ok" => (sqarg <= call.t /\ icall.r >= call.r)

\* the first call of an episode, for a pair the previous episode visited at
\* t >= 1
C19_Witness ==
    /\ kind = "ExploreBonus" /\ cmd.st = "ok"
    /\ call.t = 0 /\ old_visit >= 1 /\ sqarg = 0

\* ------------------------------------------------------------------------
\* C15 (checked under AllSpec)
\* ------------------------------------------------------------------------
\* the step is an init_episode(s0, a0): the caller is back at t = 0 with no
\* call made
StartsEpisode == call' = NoArgs /\ cmd' = NoCall /\ t' = 0 /\ hist' # <<>>

C15_Step ==
    StartsEpisode =>
        /\ model' = model /\ rev_model' = rev_model /\ pq' = pq
        /\ buffer' = [i \in 1..(nstep + 1) |->
                          IF i = 1 THEN <<hist'[1][1], hist'[1][2], 0>> ELSE NoneSlot]
        /\ T_step' = TInf
        /\ kind = "ExploreBonus" => last_visit' = EmptyTable
        /\ kind # "ExploreBonus" => last_visit' = NoTable

\* C15: init_episode leaves the transition model, the reverse model and the
\* priority queue as they are, and recreates the ring buffer (default-filled,
\* (s0, a0, 0) at slot 0), T_step (infinity) and ExploreBonus's last-visit
\* table (empty).
C15_InitEpisodeFrame == [][C15_Step]_vars

\* a new episode has just begun and the model, the reverse model and the queue
\* of the episodes before are still there
C15_Witness ==
    /\ kind = "PrioritizedSweep" /\ call = NoArgs /\ T_step = TInf
    /\ Cardinality(DOMAIN model) >= 2 /\ DOMAIN rev_model # {} /\ pq # <<>>
    /\ Len(buffer) = nstep + 1 /\ buffer[2] = NoneSlot

\* ------------------------------------------------------------------------
\* C16 (checked under AllSpec)
\* ------------------------------------------------------------------------
C16_Step ==
    (T_step.k = "none" /\ call'.t >= 0) =>
        /\ cmd'.st = "error"
        /\ buffer' = buffer /\ T_step' = T_step
        /\ model' = model /\ rev_model' = rev_model /\ pq' = pq
        /\ last_visit' = last_visit
        /\ Q' = Q

\* C16 as stated: an apply call made before the first init_episode, directly on
\* the engine or through Dyna, PrioritizedSweep or ExploreBonus, ends in an
\* error and has modified nothing: ring buffer, T_step, transition model,
\* reverse model, priority queue, last-visit table, agent values.
C16_FailsFast == [][C16_Step]_vars

\* ------------------------------------------------------------------------
\* C17 (checked under Spec)
\* ------------------------------------------------------------------------
\* the slot of the ring buffer that absolute step i lives in
SlotOf(i) == (i % (nstep + 1)) + 1

C17_Step ==
    (cmd'.st = "ok" /\ call'.t >= 0 /\ t' = t + 1) =>
        IF ~ended' \/ call'.t < hlast'
        THEN buffer' = [buffer EXCEPT ![SlotOf(call'.t + 1)] =
                                          <<call'.new_s, call'.new_a, call'.r>>]
        ELSE buffer' = buffer

\* C17: a call with t < T_step, the terminal call (t = T_step - 1) included,
\* stores (new_s, new_a, r) at slot t+1 and changes no other slot; a call with
\* t >= T_step leaves the ring buffer as it is.
C17_WritesSuppressed == [][C17_Step]_vars

\* a call past the horizon whose transition is not in the slot it would have
\* been written to
C17_Witness ==
    /\ cmd.st = "ok" /\ ended /\ call.t >= hlast /\ T_step = TFin(hlast)
    /\ buffer[SlotOf(call.t + 1)] # <<call.new_s, call.new_a, call.r>>
    /\ buffer[SlotOf(call.t + 1)] # NoneSlot

\* ------------------------------------------------------------------------
\* C18 (checked under LoopSpec)
\* ------------------------------------------------------------------------
\* C18: up to the first Command with terminate=true, the calls at
\* t = nstep-1, nstep, ... return update=true and credit the steps 0, 1, ...,
\* T_step-1, one each, in this order; the (state, action) of the Command for
\* step k is the pair delivered for step k, whatever s and a the call was
\* given; every slot of the window tgt_t..end_t still holds what was
\* delivered for its step.
C18_CreditsInOrder ==
    /\ cmd.st = "ok" => (cmd.update <=> call.t >= nstep - 1)
    /\ Updated =>
           /\ 0 <= CTgt /\ CTgt <= hlast - 1
           /\ cmd.sa = SubSeq(H(CTgt), 1, 2)
           /\ \A i \in CTgt..CEnd : BufGet(buffer, i) = H(i)
           /\ cmd.terminate <=> (ended /\ CTgt = hlast - 1)

\* the last Command of a two-step rule, after the ring wrapped around, from a
\* call that was given another pair than the one it was at
C18_Witness ==
    /\ Updated /\ cmd.terminate /\ nstep = 2 /\ hlast = 3 /\ CTgt = 2
    /\ <<call.s, call.a>> # SubSeq(H(call.t), 1, 2)
    /\ cmd.sa = SubSeq(H(2), 1, 2)

\* ------------------------------------------------------------------------
\* C20 (checked under Spec)
\* ------------------------------------------------------------------------
\* the returns the two policies compute on the window of the last call
TreeReturn(buf) == get_return("TreeLearn", Q, buf, T_step, call.t, CTgt)

QLearnReturn(buf) == get_return("QLearn", Q, buf, T_step, call.t, CTgt)

\* the slots tgt_t+1..end_t-1 of the window
Inner == (CTgt + 1)..(EndT(T_step, call.t) - 1)

\* the action stored at slot i is the agent's greedy action
GreedyAt(i) == BufGet(buffer, i)[2] = best_action(Q, BufGet(buffer, i)[1])

\* C20: on the window and the values of a call, TreeLearn's return equals
\* QLearn's when every action stored in slots tgt_t+1..end_t-1 is greedy;
\* when the action at such a slot i is not greedy, TreeLearn's return is the
\* same whatever (s, a, r) a later slot holds.
C20_TreeBackupCut ==
    Updated =>
        /\ algo = "TreeLearn" => cmd.ret = TreeReturn(buffer)
        /\ algo = "QLearn" => cmd.ret = QLearnReturn(buffer)
        /\ (\A i \in Inner : GreedyAt(i)) => TreeReturn(buffer) = QLearnReturn(buffer)
        /\ \A i \in Inner :
               ~GreedyAt(i) =>
                   \A j \in (i + 1)..EndT(T_step, call.t), s \in States, a \in Actions,
                      r \in Rewards :
                       TreeReturn(BufSet(buffer, j, <<s, a, r>>)) = TreeReturn(buffer)

\* a three-step TreeLearn return cut at a slot whose action is not greedy,
\* where QLearn's return on the same window is another number
C20_Witness ==
    /\ Updated /\ algo = "TreeLearn" /\ nstep = 3 /\ ~ended
    /\ \E i \in Inner : ~GreedyAt(i)
    /\ TreeReturn(buffer) # QLearnReturn(buffer)
====
